---------------------------- MODULE Spec2Model ----------------------------
(***************************************************************************)
(* A model of WebSocketClient (src/lib/WebSocketClient.js): the connection *)
(* supervisor that owns one WebSocket at a time, guards the connection     *)
(* attempt with a timeout, reconnects with a backoff counter and pauses    *)
(* the JSON-RPC engine (JSONBird) while no connection is open.             *)
(*                                                                         *)
(* Every method of the class is an operator from a state record to a state *)
(* record, written statement by statement; an action of the next-state     *)
(* relation is one task of the JavaScript event loop: a call of the public *)
(* API, a transport event, a timer callback or an event of the engine.     *)
(* `trace` holds the calls the client made on its collaborators during the *)
(* last task, in order: the factory, the timers, the transport, the delay  *)
(* callback and the listeners of its own events.                           *)
(***************************************************************************)
EXTENDS Integers, Sequences, FiniteSets, TLC

VARIABLES
    \* this[PRIVATE], state
    started, activeWebSocket, reconnectCounter, hasHandledWebSocketClose,
    reconnectTimer, connectTimeoutTimer,
    \* this[PRIVATE], settings
    reconnect, reconnectCounterMax, timeoutCloseCode, internalErrorCloseCode,
    connectTimeout, consecutivePingFailClose,
    \* the transports made by createConnectionCallback
    wsCount, wsReadyState,
    \* the timers of rpc.setTimeout that were neither cleared nor fired
    timers, nextTimerId,
    \* whether the timer functions given to the constructor may still run the
    \* callback of a cleared timer, and the cleared timers whose callback they hold
    lateTimers, cancelled,
    \* the JSON-RPC engine
    paused, pinging, consecutivePingFails, pingInFlight,
    \* the frames of rpc.call() the engine holds back, and the calls made so far
    outQueue, callCount,
    \* whether createConnectionCallback throws when it is called
    factoryFails,
    \* whether reconnectDelayCallback throws when it is called, and whether a
    \* listener that throws was added to the lifecycle events of the client
    delayFails, listenerThrows,
    \* whether a listener of 'error' was added to the client
    errorListener,
    \* what was observed: the events emitted per transport, the transport
    \* whose open was handled last, the last task and the calls it made
    connectingEvents, closeEvents, openHandled, trace, lastCall

vars == <<started, activeWebSocket, reconnectCounter, hasHandledWebSocketClose,
          reconnectTimer, connectTimeoutTimer, reconnect, reconnectCounterMax,
          wsCount, wsReadyState, timers, nextTimerId,
          paused, pinging, consecutivePingFails, pingInFlight,
          outQueue, callCount, factoryFails, lateTimers, cancelled,
          timeoutCloseCode, internalErrorCloseCode, delayFails, listenerThrows,
          connectTimeout, consecutivePingFailClose, errorListener,
          connectingEvents, closeEvents, openHandled, trace, lastCall>>

\* the fields of the client itself, as start() and stop() may change them
clientVars == <<started, activeWebSocket, reconnectCounter, hasHandledWebSocketClose,
                reconnectTimer, connectTimeoutTimer, reconnect, reconnectCounterMax,
                paused, pinging, timers>>

---------------------------------------------------------------------------
\* Bounds of the model

\* transports the factory hands out in one run
MaxSessions == 3
\* reconnectCounterMax is 1 or MaxCounterMax, set at construction
MaxCounterMax == 3
\* consecutivePingFailClose is PingFailClose at construction, and 1 to
\* PingFailClose + 1 when it is set later
PingFailClose == 2
\* calls of rpc.call() in one run
MaxCalls == 2

---------------------------------------------------------------------------
\* Constants of the program

CONNECTING == 0
OPEN == 1
CLOSING == 2
CLOSED == 3

NORMAL == 1000
DefaultTimeoutCloseCode == 4100
DefaultInternalErrorCloseCode == 4101
DefaultConnectTimeout == 10000
\* rpc.connectTimeout = 29875, the value the tests set
TestConnectTimeout == 29875
DelayFactor == 1111

null == 0
\* the frame of a ping call; the frames of rpc.call() are 1, 2, ...
PingFrame == 0
NoDelay == -1
NoExc == "none"

Sessions == 1 .. MaxSessions

\* x => (x + 1) * 1111, the reconnectDelayCallback of the tests
reconnectDelayCallback(x) == (x + 1) * DelayFactor

Min(a, b) == IF a < b THEN a ELSE b
Max(a, b) == IF a > b THEN a ELSE b

---------------------------------------------------------------------------
\* The calls the client makes on its collaborators, as entries of `trace`

E0(t) ==
    [t |-> t, ws |-> 0, code |-> 0, reason |-> "", closedByRemote |-> FALSE,
     reconnect |-> FALSE, reconnectDelay |-> NoDelay, id |-> 0, arg |-> 0]

log(s, e) == [s EXCEPT !.trace = Append(@, e)]

throw(s, message) == [s EXCEPT !.exc = message]

\* a listener that was added without the isActive() guard
isActiveUnguarded(s, webSocket) == TRUE

\* a guard that only asks whether there is a session, not which one
isActiveAnySession(s, webSocket) == s.activeWebSocket # null

\* const isActive = () => this[PRIVATE].activeWebSocket === webSocket
isActive(s, webSocket) == s.activeWebSocket = webSocket

---------------------------------------------------------------------------
\* The timer facade and the engine, as the client drives them

\* rpc.setTimeout(callback, delay, timerId): the handle is s.nextTimerId
rpcSetTimeout(s, kind, ws, delay) ==
    LET id == s.nextTimerId
        s1 == [s EXCEPT !.timers = @ \cup {[id |-> id, kind |-> kind, ws |-> ws, delay |-> delay]},
                        !.nextTimerId = id + 1]
    IN log(s1, [E0("setTimeout") EXCEPT !.id = id, !.reason = kind, !.arg = delay, !.ws = ws])

\* rpc.clearTimeout(handle)
rpcClearTimeout(s, id) ==
    LET s1 == [s EXCEPT !.timers = {x \in @ : x.id # id},
                        !.cancelled = IF s.lateTimers
                                      THEN @ \cup {x \in s.timers : x.id = id}
                                      ELSE @]
    IN log(s1, [E0("clearTimeout") EXCEPT !.id = id])

\* the close of a session handled without this.rpc.pause()
rpcPauseForgotten(s) == s

rpcPause(s) == [s EXCEPT !.paused = TRUE]

rpcResume(s) == [s EXCEPT !.paused = FALSE]

rpcStopPinging(s) == [s EXCEPT !.pinging = FALSE]

rpcStartPinging(s) == [s EXCEPT !.pinging = TRUE]

rpcResetPingStatistics(s) == [s EXCEPT !.consecutivePingFails = 0]

\* webSocket.close(code, reason) of the transport: the closing handshake starts
wsClose(s, ws, code, reason) ==
    LET s1 == [s EXCEPT !.wsReadyState[ws] = IF @ = CLOSED THEN CLOSED ELSE CLOSING]
    IN log(s1, [E0("ws.close") EXCEPT !.ws = ws, !.code = code, !.reason = reason])

\* webSocket.send(data) of the transport
wsSend(s, ws, data) == log(s, [E0("ws.send") EXCEPT !.ws = ws, !.arg = data])

---------------------------------------------------------------------------
\* The methods of WebSocketClient.  L is what the listener of webSocketClose
\* does when it is called: "none", "stop" (it calls rpc.stop()), "start" (it
\* calls rpc.start()) or "restart" (it calls rpc.stop() and then rpc.start()).
\* Only a task that can emit webSocketClose has a choice of L.

\* _clearReconnectTimer that forgets the handle and leaves the timer pending
_clearReconnectTimerForgets(s) == [s EXCEPT !.reconnectTimer = null]

_clearReconnectTimer(s) ==
    LET s1 == IF s.reconnectTimer # null THEN rpcClearTimeout(s, s.reconnectTimer) ELSE s
    IN [s1 EXCEPT !.reconnectTimer = null]

\* _clearConnectTimeoutTimer that forgets the handle and leaves the timer pending
_clearConnectTimeoutTimerForgets(s) == [s EXCEPT !.connectTimeoutTimer = null]

_clearConnectTimeoutTimer(s) ==
    LET s1 == IF s.connectTimeoutTimer # null THEN rpcClearTimeout(s, s.connectTimeoutTimer) ELSE s
    IN [s1 EXCEPT !.connectTimeoutTimer = null]

\* reconnectCounter + 1, without the Math.min
nextReconnectCounterUnclamped(counter, max) == counter + 1

\* _clearReconnectTimer() without the rpc.setTimeout() that follows it
scheduleReconnectUnarmed(s, reconnectDelay) == _clearReconnectTimer(s)

\* Math.min(reconnectCounter + 1, reconnectCounterMax)
nextReconnectCounter(counter, max) == Min(counter + 1, max)

\* this._clearReconnectTimer(); this[PRIVATE].reconnectTimer = this.rpc.setTimeout(...)
scheduleReconnect(s, reconnectDelay) ==
    LET s1 == _clearReconnectTimer(s)
    IN [rpcSetTimeout(s1, "reconnect", null, reconnectDelay) EXCEPT !.reconnectTimer = s1.nextTimerId]

\* the range check of assertValidOutgoingCloseCode with 4999 left out
assertValidOutgoingCloseCodeShort(number) ==
    number = 1000 \/ (number >= 3000 /\ number < 4999)

\* Number.isInteger(number) && (number === 1000 || (number >= 3000 && number <= 4999))
assertValidOutgoingCloseCode(number) ==
    number \in Int /\ (number = 1000 \/ (number >= 3000 /\ number <= 4999))

\* set reconnect(value), for a value that is a boolean: Boolean(value) is value
setReconnect(s, value) == [s EXCEPT !.reconnect = value]

\* set reconnectCounterMax(value), for a value that is a number
setReconnectCounterMax(s, value) == [s EXCEPT !.reconnectCounterMax = value]

\* set consecutivePingFailClose(value), for a value that is a number
setConsecutivePingFailClose(s, value) == [s EXCEPT !.consecutivePingFailClose = value]

\* set connectTimeout(value), for a value that is a number
setConnectTimeout(s, value) == [s EXCEPT !.connectTimeout = value]

\* set timeoutCloseCode(value), for a value that is a number
setTimeoutCloseCode(s, value) ==
    LET number == value
    IN IF ~assertValidOutgoingCloseCode(number)
       THEN throw(s, "Invalid value for timeoutCloseCode: Invalid close code")
       ELSE [s EXCEPT !.timeoutCloseCode = number]

\* set internalErrorCloseCode(value), for a value that is a number
setInternalErrorCloseCode(s, value) ==
    LET number == value
    IN IF ~assertValidOutgoingCloseCode(number)
       THEN throw(s, "Invalid value for internalErrorCloseCode: Invalid close code")
       ELSE [s EXCEPT !.internalErrorCloseCode = number]

\* the events of the client whose listeners it calls while it handles a session
LifecycleEvents == {"webSocketConnecting", "webSocketOpen", "webSocketError", "webSocketClose"}

RECURSIVE stop(_, _, _, _), closeConnection(_, _, _, _)
RECURSIVE _webSocketClosed(_, _, _, _, _), emit(_, _, _), start(_, _)

\* the listener of the caller that was added last to a lifecycle event: its
\* exception leaves emit, s is the state the listeners before it left
lastListener(s, e) ==
    IF e.t \in LifecycleEvents /\ s.listenerThrows /\ s.exc = NoExc
    THEN throw(s, "listener threw")
    ELSE s

\* a return statement: it is reached only when nothing before it has thrown
return(s, value) == IF s.exc # NoExc THEN s ELSE [s EXCEPT !.ret = value]

\* this[PRIVATE].hasHandledWebSocketClose = true, the last statement of
\* _webSocketClosed: it is reached only when nothing before it has thrown
closeHandled(s) == IF s.exc # NoExc THEN s ELSE [s EXCEPT !.hasHandledWebSocketClose = TRUE]

\* this.emit(name, payload): the event is handed to its listeners, which run
\* before emit returns, in the order in which they were added; the exception
\* of a listener leaves emit.  An 'error' that no listener was added for is
\* thrown by emit itself
emit(s, e, L) ==
    IF e.t = "error" /\ ~s.errorListener THEN throw(s, e.reason) ELSE
    LET s1 == log(s, e)
        s2 == IF e.t = "webSocketClose" /\ e.ws \in Sessions
              THEN [s1 EXCEPT !.closeEvents[e.ws] = @ + 1]
              ELSE IF e.t = "webSocketConnecting" /\ e.ws \in Sessions
              THEN [s1 EXCEPT !.connectingEvents[e.ws] = @ + 1]
              ELSE s1
    IN lastListener(IF e.t = "webSocketClose" /\ L = "stop"
                    THEN stop(log(s2, E0("listener:stop")), NORMAL, "Normal Closure", L)
                    ELSE IF e.t = "webSocketClose" /\ L = "start"
                    THEN start(log(s2, E0("listener:start")), "none")
                    ELSE IF e.t = "webSocketClose" /\ L = "restart"
                    THEN start(stop(log(s2, E0("listener:restart")), NORMAL, "Normal Closure", "none"),
                               "none")
                    ELSE s2, e)

\* this.emit(name, payload) once the code before it has not thrown
emitNext(s, e, L) == IF s.exc # NoExc THEN s ELSE emit(s, e, L)

\* stop() without its call of _clearReconnectTimer()
stopKeepsTimer(s, code, reason, L) ==
    closeConnection(rpcStopPinging([s EXCEPT !.started = FALSE]), code, reason, L)

\* stop() without its assignment of started
stopStaysStarted(s, code, reason, L) ==
    closeConnection(rpcStopPinging(_clearReconnectTimer(s)), code, reason, L)

stop(s, code, reason, L) ==
    LET s1 == [s EXCEPT !.started = FALSE]
        s2 == _clearReconnectTimer(s1)
        s3 == rpcStopPinging(s2)
    IN closeConnection(s3, code, reason, L)

\* closeConnection that checks the code only after it has closed the session
closeConnectionChecksLate(s, code, reason, L) ==
    LET s1 == IF s.activeWebSocket # null
              THEN _webSocketClosed(wsClose(s, s.activeWebSocket, code, reason), code, reason, FALSE, L)
              ELSE s
    IN IF ~assertValidOutgoingCloseCode(code)
       THEN throw(s1, "closeConnection(): Invalid close code")
       ELSE [s1 EXCEPT !.ret = s.activeWebSocket # null]

\* closeConnection that returns true also when there was no session
closeConnectionReportsTrue(s, code, reason, L) ==
    IF ~assertValidOutgoingCloseCode(code)
    THEN throw(s, "closeConnection(): Invalid close code")
    ELSE LET s2 == IF s.activeWebSocket # null
                   THEN _webSocketClosed(wsClose(s, s.activeWebSocket, code, reason), code, reason, FALSE, L)
                   ELSE s
         IN IF s2.exc # NoExc THEN s2 ELSE [s2 EXCEPT !.ret = TRUE]

\* closeConnection without activeWebSocket.close(code, reason)
closeConnectionLeavesTransport(s, code, reason, L) ==
    IF ~assertValidOutgoingCloseCode(code)
    THEN throw(s, "closeConnection(): Invalid close code")
    ELSE IF s.activeWebSocket # null
    THEN return(_webSocketClosed(s, code, reason, FALSE, L), TRUE)
    ELSE return(s, FALSE)

closeConnection(s, code, reason, L) ==
    IF ~assertValidOutgoingCloseCode(code)
    THEN throw(s, "closeConnection(): Invalid close code")
    ELSE LET activeWS == s.activeWebSocket
             hadConnection == activeWS # null
         IN IF hadConnection
            THEN return(_webSocketClosed(wsClose(s, activeWS, code, reason),
                                         code, reason, FALSE, L), TRUE)
            ELSE return(s, FALSE)

\* _webSocketClosed without the this.stop() of its else branch
_webSocketClosedWithoutStop(s, code, reason, closedByRemote, L) ==
    IF s.hasHandledWebSocketClose
    THEN s
    ELSE LET ws == s.activeWebSocket
             s3 == rpcStopPinging(rpcPause(_clearConnectTimeoutTimer([s EXCEPT !.activeWebSocket = null])))
             info == [E0("webSocketClose") EXCEPT !.ws = ws, !.code = code, !.reason = reason,
                                                  !.closedByRemote = closedByRemote]
             s4 == IF s3.started /\ s3.reconnect
                   THEN LET c == s3.reconnectCounter
                            a1 == log(s3, [E0("reconnectDelayCallback") EXCEPT !.arg = c])
                            a2 == [a1 EXCEPT !.reconnectCounter =
                                                 nextReconnectCounter(c, a1.reconnectCounterMax)]
                            a3 == scheduleReconnect(a2, reconnectDelayCallback(c))
                        IN emit(a3, [info EXCEPT !.reconnect = TRUE,
                                                 !.reconnectDelay = reconnectDelayCallback(c)], L)
                   ELSE emit(s3, info, L)
         IN [s4 EXCEPT !.hasHandledWebSocketClose = TRUE]

_webSocketClosed(s, code, reason, closedByRemote, L) ==
    IF s.hasHandledWebSocketClose
    THEN s
    ELSE LET ws == s.activeWebSocket
             s1 == [s EXCEPT !.activeWebSocket = null]
             s2 == _clearConnectTimeoutTimer(s1)
             s3 == rpcStopPinging(rpcPause(s2))
             info == [E0("webSocketClose") EXCEPT !.ws = ws, !.code = code, !.reason = reason,
                                                  !.closedByRemote = closedByRemote]
         IN closeHandled(
                IF s3.started /\ s3.reconnect
                THEN LET c == s3.reconnectCounter
                         reconnectDelay == reconnectDelayCallback(c)
                         a1 == log(s3, [E0("reconnectDelayCallback") EXCEPT !.arg = c])
                         a2 == [a1 EXCEPT !.reconnectCounter =
                                              nextReconnectCounter(c, a1.reconnectCounterMax)]
                         a3 == scheduleReconnect(a2, reconnectDelay)
                     IN IF s.delayFails
                        THEN throw(a1, "reconnectDelayCallback threw")
                        ELSE emit(a3, [info EXCEPT !.reconnect = TRUE,
                                                   !.reconnectDelay = reconnectDelay], L)
                ELSE emitNext(stop(s3, NORMAL, "Normal Closure", L), info, L))

\* _connect without its assert(!this[PRIVATE].activeWebSocket)
_connectOverSession(s, L) ==
    IF ~s.started THEN throw(s, "_connect(): Should be started")
    ELSE LET s2 == [_clearReconnectTimer(s) EXCEPT !.hasHandledWebSocketClose = FALSE]
             webSocket == s2.wsCount + 1
             s3 == log([s2 EXCEPT !.wsCount = webSocket],
                       [E0("createConnectionCallback") EXCEPT !.ws = webSocket])
             s5 == [rpcSetTimeout([s3 EXCEPT !.activeWebSocket = webSocket],
                                  "connectTimeout", webSocket, s.connectTimeout)
                        EXCEPT !.connectTimeoutTimer = s3.nextTimerId]
         IN emit(s5, [E0("webSocketConnecting") EXCEPT !.ws = webSocket], L)

\* _connect without this.emit('webSocketConnecting')
_connectSilent(s, L) ==
    IF ~s.started THEN throw(s, "_connect(): Should be started")
    ELSE IF s.activeWebSocket # null
    THEN throw(s, "_connect(): There already is an active connection")
    ELSE LET s2 == [_clearReconnectTimer(s) EXCEPT !.hasHandledWebSocketClose = FALSE]
             webSocket == s2.wsCount + 1
             s3 == log([s2 EXCEPT !.wsCount = webSocket],
                       [E0("createConnectionCallback") EXCEPT !.ws = webSocket])
         IN IF s2.factoryFails
            THEN throw(log(s2, E0("createConnectionCallback")), "createConnectionCallback threw")
            ELSE [rpcSetTimeout([s3 EXCEPT !.activeWebSocket = webSocket],
                                "connectTimeout", webSocket, s.connectTimeout)
                      EXCEPT !.connectTimeoutTimer = s3.nextTimerId]

_connect(s, L) ==
    IF ~s.started THEN throw(s, "_connect(): Should be started")
    ELSE IF s.activeWebSocket # null
    THEN throw(s, "_connect(): There already is an active connection")
    ELSE LET s1 == _clearReconnectTimer(s)
             s2 == [s1 EXCEPT !.hasHandledWebSocketClose = FALSE]
             webSocket == s2.wsCount + 1
             s3 == log([s2 EXCEPT !.wsCount = webSocket],
                       [E0("createConnectionCallback") EXCEPT !.ws = webSocket])
             s4 == [s3 EXCEPT !.activeWebSocket = webSocket]
             s5 == [rpcSetTimeout(s4, "connectTimeout", webSocket, s.connectTimeout)
                        EXCEPT !.connectTimeoutTimer = s4.nextTimerId]
         IN IF s2.factoryFails
            THEN throw(log(s2, E0("createConnectionCallback")), "createConnectionCallback threw")
            ELSE emit(s5, [E0("webSocketConnecting") EXCEPT !.ws = webSocket], L)

\* start() without its assert(!this.started)
startUnchecked(s, L) == _connect([s EXCEPT !.started = TRUE], L)

\* start() that also resets the reconnect counter
startResetsCounter(s, L) ==
    IF s.started THEN throw(s, "start(): Already started")
    ELSE _connect([s EXCEPT !.started = TRUE, !.reconnectCounter = 0], L)

\* start() without its assignment of started
startForgetsStarted(s, L) ==
    IF s.started THEN throw(s, "start(): Already started") ELSE _connect(s, L)

start(s, L) ==
    IF s.started THEN throw(s, "start(): Already started")
    ELSE _connect([s EXCEPT !.started = TRUE], L)

\* the catch of _wrapListener, applied to the state the wrapped function left
_wrapListener(s, L) ==
    IF s.exc # NoExc
    THEN emit([s EXCEPT !.exc = NoExc], [E0("error") EXCEPT !.reason = s.exc], L)
    ELSE s

\* `Timeout: Opening WebSocket took longer than ${connectTimeout}ms`
TimeoutReason(timeout) ==
    "Timeout: Opening WebSocket took longer than " \o ToString(timeout) \o "ms"

\* _handleConnectionTimeout closing with internalErrorCloseCode
_handleConnectionTimeoutWrongCode(s, timeout, L) ==
    closeConnection(s, s.internalErrorCloseCode, TimeoutReason(timeout), L)

\* timeout is the connectTimeout that _connect read when it armed the timer
_handleConnectionTimeout(s, timeout, L) ==
    closeConnection(s, s.timeoutCloseCode, TimeoutReason(timeout), L)

_handleRpcError(s, L) ==
    closeConnection(s, s.internalErrorCloseCode, "Internal JSON-RPC error", L)

\* _handleRpcPingSuccess without the Math.max(0, ...)
_handleRpcPingSuccessNoFloor(s) == [s EXCEPT !.reconnectCounter = @ - 1]

_handleRpcPingSuccess(s) ==
    [s EXCEPT !.reconnectCounter = Max(0, @ - 1)]

\* _handleRpcPingFail with > in place of >=
_handleRpcPingFailLate(s, consecutiveFails, L) ==
    IF consecutiveFails > s.consecutivePingFailClose
    THEN closeConnection(s, s.timeoutCloseCode, "Timeout: No responses received to ping calls", L)
    ELSE s

_handleRpcPingFail(s, consecutiveFails, L) ==
    IF consecutiveFails >= s.consecutivePingFailClose
    THEN closeConnection(s, s.timeoutCloseCode, "Timeout: No responses received to ping calls", L)
    ELSE s

\* _handleRpcData without the assert on readyState
_handleRpcDataUnchecked(s, data) ==
    IF s.activeWebSocket = null
    THEN throw(s, "_handleRpcData(): Expected an active connection")
    ELSE wsSend(s, s.activeWebSocket, data)

_handleRpcData(s, data) ==
    IF s.activeWebSocket = null
    THEN throw(s, "_handleRpcData(): Expected an active connection")
    ELSE IF s.wsReadyState[s.activeWebSocket] # OPEN
    THEN throw(s, "_handleRpcData(): Expected an open connection")
    ELSE wsSend(s, s.activeWebSocket, data)

\* _handleWebSocketOpen without this.rpc.resume()
_handleWebSocketOpenPaused(s, L) ==
    LET s1 == _clearReconnectTimer(_clearConnectTimeoutTimer(s))
        s2 == rpcStartPinging(rpcResetPingStatistics(s1))
        s3 == [s2 EXCEPT !.openHandled = s2.activeWebSocket]
    IN emit(s3, [E0("webSocketOpen") EXCEPT !.ws = s3.activeWebSocket], L)

\* _handleWebSocketOpen without this.rpc.resetPingStatistics()
_handleWebSocketOpenKeepsStatistics(s, L) ==
    LET s3 == rpcResume(_clearReconnectTimer(_clearConnectTimeoutTimer(s)))
        s5 == [rpcStartPinging(s3) EXCEPT !.openHandled = s3.activeWebSocket]
    IN emit(s5, [E0("webSocketOpen") EXCEPT !.ws = s5.activeWebSocket], L)

_handleWebSocketOpen(s, L) ==
    LET s1 == _clearConnectTimeoutTimer(s)
        s2 == _clearReconnectTimer(s1)
        s3 == rpcResume(s2)
        s4 == rpcStartPinging(rpcResetPingStatistics(s3))
        s5 == [s4 EXCEPT !.openHandled = s4.activeWebSocket]
    IN emit(s5, [E0("webSocketOpen") EXCEPT !.ws = s5.activeWebSocket], L)

\* _handleWebSocketError that also closes the session
_handleWebSocketErrorCloses(s, errorOrEvent, L) ==
    closeConnection(emit(s, [E0("webSocketError") EXCEPT !.ws = s.activeWebSocket, !.arg = errorOrEvent], L),
                    DefaultInternalErrorCloseCode, "WebSocket error", L)

_handleWebSocketError(s, errorOrEvent, L) ==
    emit(s, [E0("webSocketError") EXCEPT !.ws = s.activeWebSocket, !.arg = errorOrEvent], L)

_handleWebSocketClose(s, code, reason, L) ==
    _webSocketClosed(s, code, reason, TRUE, L)

\* this.rpc.write(data, 'utf8') for a string, this.rpc.write(Buffer.from(data))
\* for binary data: the engine is handed the content as it arrived
_handleWebSocketMessage(s, data) ==
    IF data.isString
    THEN log(s, [E0("rpc.write") EXCEPT !.arg = data.payload, !.reason = "utf8", !.ws = s.activeWebSocket])
    ELSE log(s, [E0("rpc.write") EXCEPT !.arg = data.payload, !.reason = "buffer", !.ws = s.activeWebSocket])

hasActiveConnectionOf(s) ==
    /\ s.started
    /\ s.activeWebSocket # null
    /\ s.wsReadyState[s.activeWebSocket] = OPEN
    /\ ~s.paused

---------------------------------------------------------------------------
\* The state as a record, and a task's result written back

Cur ==
    [started |-> started, activeWebSocket |-> activeWebSocket,
     reconnectCounter |-> reconnectCounter,
     hasHandledWebSocketClose |-> hasHandledWebSocketClose,
     reconnectTimer |-> reconnectTimer, connectTimeoutTimer |-> connectTimeoutTimer,
     reconnect |-> reconnect, reconnectCounterMax |-> reconnectCounterMax,
     wsCount |-> wsCount, wsReadyState |-> wsReadyState,
     timers |-> timers, nextTimerId |-> nextTimerId,
     paused |-> paused, pinging |-> pinging,
     consecutivePingFails |-> consecutivePingFails, pingInFlight |-> pingInFlight,
     outQueue |-> outQueue, callCount |-> callCount, factoryFails |-> factoryFails,
     lateTimers |-> lateTimers, cancelled |-> cancelled,
     timeoutCloseCode |-> timeoutCloseCode, internalErrorCloseCode |-> internalErrorCloseCode,
     connectTimeout |-> connectTimeout, consecutivePingFailClose |-> consecutivePingFailClose,
     delayFails |-> delayFails, listenerThrows |-> listenerThrows,
     errorListener |-> errorListener,
     connectingEvents |-> connectingEvents, closeEvents |-> closeEvents,
     openHandled |-> openHandled,
     trace |-> <<>>, exc |-> NoExc, ret |-> FALSE]

\* op names the task; an exception nothing caught is kept in lastCall.exc; x is
\* the state the task left, computed once
Commit(r, op, code) ==
    \E x \in {r} :
        /\ started' = x.started
        /\ activeWebSocket' = x.activeWebSocket
        /\ reconnectCounter' = x.reconnectCounter
        /\ hasHandledWebSocketClose' = x.hasHandledWebSocketClose
        /\ reconnectTimer' = x.reconnectTimer
        /\ connectTimeoutTimer' = x.connectTimeoutTimer
        /\ reconnect' = x.reconnect
        /\ reconnectCounterMax' = x.reconnectCounterMax
        /\ wsCount' = x.wsCount
        /\ wsReadyState' = x.wsReadyState
        /\ timers' = x.timers
        /\ nextTimerId' = x.nextTimerId
        /\ paused' = x.paused
        /\ pinging' = x.pinging
        /\ consecutivePingFails' = x.consecutivePingFails
        /\ pingInFlight' = x.pingInFlight
        /\ outQueue' = x.outQueue
        /\ callCount' = x.callCount
        /\ factoryFails' = x.factoryFails
        /\ lateTimers' = x.lateTimers
        /\ cancelled' = x.cancelled
        /\ timeoutCloseCode' = x.timeoutCloseCode
        /\ internalErrorCloseCode' = x.internalErrorCloseCode
        /\ connectTimeout' = x.connectTimeout
        /\ consecutivePingFailClose' = x.consecutivePingFailClose
        /\ delayFails' = x.delayFails
        /\ listenerThrows' = x.listenerThrows
        /\ errorListener' = x.errorListener
        /\ connectingEvents' = x.connectingEvents
        /\ closeEvents' = x.closeEvents
        /\ openHandled' = x.openHandled
        /\ trace' = x.trace
        /\ lastCall' = [op |-> op, code |-> code, exc |-> x.exc, ret |-> x.ret,
                         again |-> lastCall.op = op]

Listeners == {"none", "stop"}

\* a listener of webSocketClose that calls rpc.start(), or rpc.stop() and
\* then rpc.start()
ReenteringListeners == {"start", "restart"}

\* stop(code, reason) as the tests call it: the defaults, and a code of the caller
StopArgs == {<<NORMAL, "Normal Closure">>, <<3123, "bye forever!">>}
CloseArgs == {<<3294, "bye bye">>}
RemoteCloses == {<<1008, "policy violation">>}
\* the integers given as close codes: the ends of the accepted ranges and
\* their neighbours
CloseCodeInputs == {999, 1000, 1001, 2999, 3000, 4999, 5000}
\* the codes among them that closeConnection() must refuse
InvalidCloseCodes == {999, 1001, 2999, 5000}
\* the event object a transport hands to its 'error' listeners
ErrorEvents == {7}
\* e.data of the 'message' event of a transport: a string, or an ArrayBuffer
Messages == {[isString |-> TRUE, payload |-> 5], [isString |-> FALSE, payload |-> 6]}

Init ==
    /\ started = FALSE
    /\ activeWebSocket = null
    /\ reconnectCounter = 0
    /\ hasHandledWebSocketClose = FALSE
    /\ reconnectTimer = null
    /\ connectTimeoutTimer = null
    /\ reconnect \in BOOLEAN
    /\ reconnectCounterMax \in {1, MaxCounterMax}
    /\ wsCount = 0
    /\ wsReadyState = [w \in Sessions |-> CONNECTING]
    /\ timers = {}
    /\ nextTimerId = 1
    /\ paused = TRUE
    /\ pinging = FALSE
    /\ consecutivePingFails = 0
    /\ pingInFlight = 0
    /\ outQueue = <<>>
    /\ callCount = 0
    /\ factoryFails = FALSE
    /\ lateTimers = FALSE
    /\ cancelled = {}
    /\ timeoutCloseCode = DefaultTimeoutCloseCode
    /\ internalErrorCloseCode = DefaultInternalErrorCloseCode
    /\ connectTimeout = DefaultConnectTimeout
    /\ consecutivePingFailClose = PingFailClose
    /\ delayFails = FALSE
    /\ listenerThrows = FALSE
    /\ errorListener = FALSE
    /\ connectingEvents = [w \in Sessions |-> 0]
    /\ closeEvents = [w \in Sessions |-> 0]
    /\ openHandled = 0
    /\ trace = <<>>
    /\ lastCall = [op |-> "new", code |-> 0, exc |-> NoExc, ret |-> FALSE, again |-> FALSE]

\* the client constructed with timer functions (opts.jsonbird.setTimeout and
\* clearTimeout) that may still run the callback of a cleared timer, as the
\* timer mock of the tests lets the tests do
InitLate ==
    /\ started = FALSE
    /\ activeWebSocket = null
    /\ reconnectCounter = 0
    /\ hasHandledWebSocketClose = FALSE
    /\ reconnectTimer = null
    /\ connectTimeoutTimer = null
    /\ reconnect \in BOOLEAN
    /\ reconnectCounterMax \in {1, MaxCounterMax}
    /\ wsCount = 0
    /\ wsReadyState = [w \in Sessions |-> CONNECTING]
    /\ timers = {}
    /\ nextTimerId = 1
    /\ paused = TRUE
    /\ pinging = FALSE
    /\ consecutivePingFails = 0
    /\ pingInFlight = 0
    /\ outQueue = <<>>
    /\ callCount = 0
    /\ factoryFails = FALSE
    /\ lateTimers = TRUE
    /\ cancelled = {}
    /\ timeoutCloseCode = DefaultTimeoutCloseCode
    /\ internalErrorCloseCode = DefaultInternalErrorCloseCode
    /\ connectTimeout = DefaultConnectTimeout
    /\ consecutivePingFailClose = PingFailClose
    /\ delayFails = FALSE
    /\ listenerThrows = FALSE
    /\ errorListener = FALSE
    /\ connectingEvents = [w \in Sessions |-> 0]
    /\ closeEvents = [w \in Sessions |-> 0]
    /\ openHandled = 0
    /\ trace = <<>>
    /\ lastCall = [op |-> "new", code |-> 0, exc |-> NoExc, ret |-> FALSE, again |-> FALSE]

---------------------------------------------------------------------------
\* Calls of the public API

Start ==
    /\ started \/ wsCount < MaxSessions
    /\ Commit(start(Cur, "none"), "start", 0)

Stop ==
    \E a \in StopArgs, L \in Listeners : Commit(stop(Cur, a[1], a[2], L), "stop", a[1])

CloseConnection ==
    \E a \in CloseArgs, L \in Listeners :
        Commit(closeConnection(Cur, a[1], a[2], L), "closeConnection", a[1])

\* closeConnection(code, reason) with a code that browsers do not accept
CloseConnectionInvalid ==
    \E code \in InvalidCloseCodes, L \in Listeners :
        Commit(closeConnection(Cur, code, "bye bye", L), "closeConnection", code)

\* rpc.reconnect = value, between any two tasks
SetReconnect ==
    \E value \in BOOLEAN :
        Commit(setReconnect(Cur, value), "set reconnect", IF value THEN 1 ELSE 0)

\* rpc.reconnectCounterMax = value, with the values it may have at construction
SetReconnectCounterMax ==
    \E value \in {1, MaxCounterMax} :
        Commit(setReconnectCounterMax(Cur, value), "set reconnectCounterMax", value)

\* rpc.consecutivePingFailClose = value
SetConsecutivePingFailClose ==
    \E value \in 1 .. PingFailClose + 1 :
        Commit(setConsecutivePingFailClose(Cur, value), "set consecutivePingFailClose", value)

\* rpc.connectTimeout = value
SetConnectTimeout ==
    \E value \in {DefaultConnectTimeout, TestConnectTimeout} :
        Commit(setConnectTimeout(Cur, value), "set connectTimeout", value)

\* rpc.timeoutCloseCode = value
SetTimeoutCloseCode ==
    \E value \in CloseCodeInputs :
        Commit(setTimeoutCloseCode(Cur, value), "set timeoutCloseCode", value)

\* rpc.internalErrorCloseCode = value
SetInternalErrorCloseCode ==
    \E value \in CloseCodeInputs :
        Commit(setInternalErrorCloseCode(Cur, value), "set internalErrorCloseCode", value)

\* stop(code, reason) with a code that browsers do not accept
StopInvalid ==
    \E code \in InvalidCloseCodes, L \in Listeners :
        Commit(stop(Cur, code, "bye forever!", L), "stop", code)

\* closeConnection(code, reason) while a listener of webSocketClose starts the
\* client anew
CloseConnectionReenter ==
    \E a \in CloseArgs, L \in ReenteringListeners :
        /\ wsCount < MaxSessions
        /\ Commit(closeConnection(Cur, a[1], a[2], L), "closeConnection", a[1])

\* stop(code, reason) while a listener of webSocketClose starts the client anew
StopReenter ==
    \E a \in StopArgs, L \in ReenteringListeners :
        /\ wsCount < MaxSessions
        /\ Commit(stop(Cur, a[1], a[2], L), "stop", a[1])

---------------------------------------------------------------------------
\* Events of a transport; the listeners were added in _connect, each wrapped

WsOpen ==
    \E ws \in 1 .. wsCount, L \in {"none"} :
        /\ wsReadyState[ws] = CONNECTING
        /\ LET s0 == [Cur EXCEPT !.wsReadyState[ws] = OPEN]
               s1 == IF isActive(s0, ws) THEN _handleWebSocketOpen(s0, L) ELSE s0
           IN Commit(_wrapListener(s1, L), "ws.onopen", ws)

\* the closing handshake was started by the peer: no event yet
WsPeerClosing ==
    \E ws \in 1 .. wsCount :
        /\ wsReadyState[ws] = OPEN
        /\ Commit([Cur EXCEPT !.wsReadyState[ws] = CLOSING], "ws.closing", ws)

WsClose ==
    \E ws \in 1 .. wsCount, a \in RemoteCloses, L \in Listeners :
        /\ wsReadyState[ws] # CLOSED
        /\ LET s0 == [Cur EXCEPT !.wsReadyState[ws] = CLOSED]
               s1 == IF isActive(s0, ws) THEN _handleWebSocketClose(s0, a[1], a[2], L) ELSE s0
           IN Commit(_wrapListener(s1, L), "ws.onclose", ws)

\* the 'close' event of a transport while a listener of webSocketClose starts
\* the client anew
WsCloseReenter ==
    \E ws \in 1 .. wsCount, a \in RemoteCloses, L \in ReenteringListeners :
        /\ wsReadyState[ws] # CLOSED
        /\ wsCount < MaxSessions
        /\ LET s0 == [Cur EXCEPT !.wsReadyState[ws] = CLOSED]
               s1 == IF isActive(s0, ws) THEN _handleWebSocketClose(s0, a[1], a[2], L) ELSE s0
           IN Commit(_wrapListener(s1, L), "ws.onclose", ws)

WsError ==
    \E ws \in 1 .. wsCount, errorOrEvent \in ErrorEvents, L \in {"none"} :
        /\ wsReadyState[ws] # CLOSED
        /\ LET s1 == IF isActive(Cur, ws) THEN _handleWebSocketError(Cur, errorOrEvent, L) ELSE Cur
           IN Commit(_wrapListener(s1, L), "ws.onerror", ws)

\* a frame of the peer arrives: on an open transport, or on one the client has
\* closed while the closing handshake is not finished
WsMessage ==
    \E ws \in 1 .. wsCount, data \in Messages, L \in {"none"} :
        /\ wsReadyState[ws] \in {OPEN, CLOSING}
        /\ LET s1 == IF isActive(Cur, ws) THEN _handleWebSocketMessage(Cur, data) ELSE Cur
           IN Commit(_wrapListener(s1, L), "ws.onmessage", ws)

---------------------------------------------------------------------------
\* Timers that fire: a timer that fired is no longer pending

ReconnectTimerFire ==
    \E tm \in timers, L \in {"none"} :
        /\ tm.kind = "reconnect"
        /\ wsCount < MaxSessions
        /\ LET s0 == [Cur EXCEPT !.timers = @ \ {tm}]
           IN Commit(_connect(s0, L), "reconnectTimer", tm.id)

ConnectTimeoutFire ==
    \E tm \in timers, L \in Listeners :
        /\ tm.kind = "connectTimeout"
        /\ LET s0 == [Cur EXCEPT !.timers = @ \ {tm}]
               s1 == IF isActive(s0, tm.ws) THEN _handleConnectionTimeout(s0, tm.delay, L) ELSE s0
           IN Commit(s1, "connectTimeoutTimer", tm.id)

\* the callback of a reconnect timer that was cleared runs all the same
LateReconnectTimerFire ==
    \E tm \in cancelled, L \in {"none"} :
        /\ tm.kind = "reconnect"
        /\ wsCount < MaxSessions
        /\ LET s0 == [Cur EXCEPT !.cancelled = @ \ {tm}]
           IN Commit(_connect(s0, L), "reconnectTimer", tm.id)

\* the callback of a connect-timeout timer that was cleared runs all the same
LateConnectTimeoutFire ==
    \E tm \in cancelled, L \in Listeners :
        /\ tm.kind = "connectTimeout"
        /\ LET s0 == [Cur EXCEPT !.cancelled = @ \ {tm}]
               s1 == IF isActive(s0, tm.ws) THEN _handleConnectionTimeout(s0, tm.delay, L) ELSE s0
           IN Commit(s1, "connectTimeoutTimer", tm.id)

---------------------------------------------------------------------------
\* Events of the engine

\* the ping timer of the engine fires: a ping call is made, its frame comes
\* out of the engine as a data event unless the engine is paused
PingTimerFire ==
    \E L \in {"none"} :
        /\ pinging
        /\ pingInFlight = 0
        /\ LET s1 == IF paused THEN Cur ELSE _wrapListener(_handleRpcData(Cur, PingFrame), L)
               sentOn == IF \E i \in 1 .. Len(s1.trace) : s1.trace[i].t = "ws.send"
                         THEN activeWebSocket ELSE -1
           IN Commit([s1 EXCEPT !.pingInFlight = sentOn], "pingTimer", 0)

\* the reply to the ping arrives as a message of the transport it was sent on
PingSuccess ==
    \E L \in {"none"} :
        /\ pingInFlight \in Sessions
        /\ wsReadyState[pingInFlight] \in {OPEN, CLOSING}
        /\ isActive(Cur, pingInFlight)
        /\ LET s0 == [Cur EXCEPT !.consecutivePingFails = 0, !.pingInFlight = 0]
               s1 == _wrapListener(_handleRpcPingSuccess(s0), L)
           IN Commit(emit(s1, E0("pingSuccess"), L), "pingSuccess", 0)

\* the ping call timed out, or the peer replied with an error
PingFail ==
    \E L \in Listeners :
        /\ pingInFlight # 0
        /\ LET n == consecutivePingFails + 1
               s0 == [Cur EXCEPT !.consecutivePingFails = n, !.pingInFlight = 0]
               s1 == _wrapListener(_handleRpcPingFail(s0, n, L), L)
           IN Commit(emitNext(s1, [E0("pingFail") EXCEPT !.arg = n], L), "pingFail", n)

\* the 'error' of the engine forwarded before _handleRpcError is called
RpcErrorForwardsFirst ==
    \E L \in Listeners :
        LET s1 == emit(Cur, [E0("error") EXCEPT !.reason = "jsonbird"], L)
        IN Commit(_wrapListener(_handleRpcError(s1, L), L), "rpc.error", 0)

\* the engine emits 'error': the listeners the constructor added run in the
\* order in which it added them
RpcError ==
    \E L \in Listeners :
        LET s1 == _wrapListener(_handleRpcError(Cur, L), L)
        IN Commit(emitNext(s1, [E0("error") EXCEPT !.reason = "jsonbird"], L), "rpc.error", 0)

\* rpc.call(): the engine makes the frame of the call and holds it back until
\* it may emit it; held tells whether the engine was paused at the call
RpcCall ==
    /\ callCount < MaxCalls
    /\ Commit([Cur EXCEPT !.callCount = @ + 1,
                          !.outQueue = Append(@, [frame |-> callCount + 1, held |-> paused])],
              "rpc.call", callCount + 1)

\* the engine emits 'data' with the oldest frame it holds, unless it is paused
RpcData ==
    \E L \in {"none"} :
        /\ ~paused
        /\ outQueue # <<>>
        /\ LET s0 == [Cur EXCEPT !.outQueue = Tail(@)]
           IN Commit(_wrapListener(_handleRpcData(s0, Head(outQueue).frame), L),
                     "rpc.data", Head(outQueue).frame)

---------------------------------------------------------------------------
\* The factory starts to throw, as it does once its url is no longer valid

FactoryBreaks ==
    /\ ~factoryFails
    /\ Commit([Cur EXCEPT !.factoryFails = TRUE], "factoryBreaks", 0)

\* rpc.reconnectDelayCallback = a function that throws
DelayCallbackBreaks ==
    /\ ~delayFails
    /\ Commit([Cur EXCEPT !.delayFails = TRUE], "delayCallbackBreaks", 0)

\* rpc.on('error', listener), with a listener that returns
AddErrorListener ==
    /\ ~errorListener
    /\ Commit([Cur EXCEPT !.errorListener = TRUE], "addErrorListener", 0)

\* rpc.on(name, () => { throw err; }) for the lifecycle events: the listener is
\* added after those the client already has
AddThrowingListener ==
    /\ ~listenerThrows
    /\ Commit([Cur EXCEPT !.listenerThrows = TRUE], "addThrowingListener", 0)

---------------------------------------------------------------------------

Next ==
    \/ Start
    \/ Stop
    \/ CloseConnection
    \/ SetReconnect
    \/ AddErrorListener
    \/ WsOpen
    \/ WsPeerClosing
    \/ WsClose
    \/ WsError
    \/ ReconnectTimerFire
    \/ ConnectTimeoutFire
    \/ PingTimerFire
    \/ PingSuccess
    \/ PingFail
    \/ RpcError

Spec == Init /\ [][Next]_vars

\* a timer of rpc.setTimeout that stays pending fires in the end
SpecLive == Spec /\ WF_vars(ReconnectTimerFire)

\* the client with calls of rpc.call() made at any time, among the calls of
\* the API and the tasks of the transports and the timers (the error event of
\* a transport, which only emits webSocketError, and the pings and the error
\* event of the engine are left out)
NextData ==
    \/ Start
    \/ Stop
    \/ CloseConnection
    \/ SetReconnect
    \/ AddErrorListener
    \/ WsOpen
    \/ WsPeerClosing
    \/ WsClose
    \/ ReconnectTimerFire
    \/ ConnectTimeoutFire
    \/ RpcCall
    \/ RpcData

SpecData == Init /\ [][NextData]_vars

\* the client with timer functions that may run the callback of a cleared
\* timer: the calls of the API and the tasks of the transports and the timers
NextLate ==
    \/ Start
    \/ Stop
    \/ CloseConnection
    \/ SetReconnect
    \/ AddErrorListener
    \/ WsOpen
    \/ WsClose
    \/ ReconnectTimerFire
    \/ ConnectTimeoutFire
    \/ LateReconnectTimerFire
    \/ LateConnectTimeoutFire

SpecLate == InitLate /\ [][NextLate]_vars

\* the client with close codes of the caller: the close-code setters and
\* closeConnection() with codes of any range, among start(), the tasks of the
\* transports, the connect timeout and the error event of the engine (a
\* reconnect timer that was armed stays pending)
NextCodes ==
    \/ Start
    \/ CloseConnection
    \/ CloseConnectionInvalid
    \/ AddErrorListener
    \/ SetTimeoutCloseCode
    \/ SetInternalErrorCloseCode
    \/ WsOpen
    \/ WsClose
    \/ ConnectTimeoutFire
    \/ RpcError

SpecCodes == Init /\ [][NextCodes]_vars

\* the client with callbacks and listeners of the caller that may throw: the
\* calls of the API and the tasks of the transports and the timers
NextCallerThrows ==
    \/ Start
    \/ Stop
    \/ CloseConnection
    \/ SetReconnect
    \/ AddErrorListener
    \/ WsOpen
    \/ WsClose
    \/ WsError
    \/ ReconnectTimerFire
    \/ ConnectTimeoutFire
    \/ FactoryBreaks
    \/ DelayCallbackBreaks
    \/ AddThrowingListener

SpecCallerThrows == Init /\ [][NextCallerThrows]_vars

\* the client with reconnectCounterMax changed while it runs
NextCounterMax ==
    \/ Next
    \/ SetReconnectCounterMax

SpecCounterMax == Init /\ [][NextCounterMax]_vars

\* the client with listeners of webSocketClose that start it anew: the calls
\* of the API and the tasks of the transports and the timers
NextReenter ==
    \/ Start
    \/ Stop
    \/ StopReenter
    \/ CloseConnection
    \/ SetReconnect
    \/ AddErrorListener
    \/ CloseConnectionReenter
    \/ WsOpen
    \/ WsClose
    \/ WsCloseReenter
    \/ ReconnectTimerFire
    \/ ConnectTimeoutFire

SpecReenter == Init /\ [][NextReenter]_vars

\* the client with stop() called with codes of any range: the calls of the
\* API and the tasks of the transports and the timers
NextStopCodes ==
    \/ Start
    \/ Stop
    \/ StopInvalid
    \/ CloseConnection
    \/ SetReconnect
    \/ AddErrorListener
    \/ WsOpen
    \/ WsClose
    \/ ReconnectTimerFire
    \/ ConnectTimeoutFire

SpecStopCodes == Init /\ [][NextStopCodes]_vars

\* the client with connectTimeout changed while it runs: the calls of the API
\* and the tasks of the transports and the timers
NextConnectTimeout ==
    \/ Start
    \/ Stop
    \/ CloseConnection
    \/ SetReconnect
    \/ AddErrorListener
    \/ SetConnectTimeout
    \/ WsOpen
    \/ WsClose
    \/ ReconnectTimerFire
    \/ ConnectTimeoutFire

SpecConnectTimeout == Init /\ [][NextConnectTimeout]_vars

\* the client with consecutivePingFailClose changed while it runs: the calls
\* of the API and the tasks of the transports, the timers and the pings of the
\* engine
NextPingFailClose ==
    \/ Start
    \/ Stop
    \/ CloseConnection
    \/ SetReconnect
    \/ AddErrorListener
    \/ SetConsecutivePingFailClose
    \/ WsOpen
    \/ WsClose
    \/ ReconnectTimerFire
    \/ ConnectTimeoutFire
    \/ PingTimerFire
    \/ PingSuccess
    \/ PingFail

SpecPingFailClose == Init /\ [][NextPingFailClose]_vars

\* the client with the frames of the peer
NextMsg ==
    \/ Next
    \/ WsMessage

SpecMsg == Init /\ [][NextMsg]_vars

\* the client with a factory that may start to throw, and timers that fire:
\* the calls of the API and the tasks of the transports and the timers (the
\* events of the engine would only add behaviours)
NextThrow ==
    \/ Start
    \/ Stop
    \/ SetReconnect
    \/ AddErrorListener
    \/ WsOpen
    \/ WsClose
    \/ ReconnectTimerFire
    \/ ConnectTimeoutFire
    \/ FactoryBreaks

SpecThrowLive == Init /\ [][NextThrow]_vars /\ WF_vars(ReconnectTimerFire)

---------------------------------------------------------------------------
\* Reading the calls of the last task

\* the entries of tr that are calls of t
Calls(tr, t) == {i \in 1 .. Len(tr) : tr[i].t = t}

\* the reconnect timers among tms
ReconnectTimers(tms) == {tm \in tms : tm.kind = "reconnect"}

\* the tasks other than stop() in which the active session can close
ClosingTasks == {"closeConnection", "ws.onclose", "connectTimeoutTimer", "pingFail", "rpc.error"}

---------------------------------------------------------------------------
\* C1: every transport gets one webSocketClose event, however many close
\* signals arrive for it: no transport ever has two, a task in which a close
\* signal reaches a transport (its 'close' event, or a close() the client calls
\* on it) leaves it with exactly one and no longer active, and the 'close'
\* event of a transport that is not active emits nothing and changes nothing.
C1_ExactlyOneClose ==
    [][\A ws \in Sessions :
          LET signal == \/ lastCall'.op = "ws.onclose" /\ lastCall'.code = ws
                        \/ \E i \in Calls(trace', "ws.close") : trace'[i].ws = ws
          IN /\ closeEvents'[ws] <= 1
             /\ signal => closeEvents'[ws] = 1 /\ activeWebSocket' # ws
             /\ (lastCall'.op = "ws.onclose" /\ lastCall'.code = ws /\ activeWebSocket # ws)
                   => /\ trace' = <<>>
                      /\ closeEvents' = closeEvents
                      /\ UNCHANGED clientVars]_vars

\* the 'close' event of a transport arrived after the client had closed it
C1_Witness ==
    \E ws \in 1 .. wsCount :
        /\ lastCall.op = "ws.onclose" /\ lastCall.code = ws
        /\ trace = <<>>
        /\ wsReadyState[ws] = CLOSED
        /\ closeEvents[ws] = 1

\* C2: in every reachable state 0 <= reconnectCounter <= reconnectCounterMax.
C2_CounterInRange ==
    reconnectCounter >= 0 /\ reconnectCounter <= reconnectCounterMax

\* a session closed while the counter was at its maximum, and the counter was
\* not raised
C2_Witness ==
    /\ reconnectCounter = reconnectCounterMax
    /\ \E i \in Calls(trace, "reconnectDelayCallback") : trace[i].arg = reconnectCounterMax

\* C3: while the client is started and reconnect is enabled, the close of a
\* session leads to a new connect attempt (the factory is called and
\* webSocketConnecting is emitted for the next transport), unless the client is
\* stopped first.
C3_CloseLeadsToConnect ==
    \A n \in 1 .. MaxSessions - 1 :
        (wsCount = n /\ closeEvents[n] = 1 /\ started /\ reconnect)
            ~> (~started \/ (wsCount > n /\ connectingEvents[n + 1] = 1))

\* the reconnect timer fired and made the next connect attempt
C3_Witness ==
    /\ lastCall.op = "reconnectTimer" /\ lastCall.exc = NoExc
    /\ wsCount >= 2 /\ closeEvents[wsCount - 1] = 1
    /\ Calls(trace, "createConnectionCallback") # {}
    /\ connectingEvents[wsCount] = 1
    /\ activeWebSocket = wsCount

\* C4: stop() returns with the client stopped, the pending reconnect timer
\* cancelled, no timer armed and the active session closed with the given code
\* and reason, without calling the factory; and while the client is stopped no
\* reconnect timer is pending and only start() makes a connect attempt.
C4_StopPreventsReconnect ==
    [][/\ lastCall'.op = "stop" =>
            /\ lastCall'.exc = NoExc
            /\ ~started' /\ activeWebSocket' = null /\ reconnectTimer' = null
            /\ Calls(trace', "setTimeout") = {}
            /\ Calls(trace', "createConnectionCallback") = {} /\ wsCount' = wsCount
            /\ reconnectTimer # null =>
                   \E i \in Calls(trace', "clearTimeout") : trace'[i].id = reconnectTimer
            /\ activeWebSocket # null =>
                   \E i \in Calls(trace', "ws.close"), a \in StopArgs :
                       /\ trace'[i].ws = activeWebSocket
                       /\ a[1] = lastCall'.code
                       /\ trace'[i].code = a[1] /\ trace'[i].reason = a[2]
       /\ ~started' => ReconnectTimers(timers') = {}
       /\ (~started /\ wsCount' # wsCount) => lastCall'.op = "start"]_vars

\* stop() was called while the client waited for a reconnect
C4_Witness ==
    /\ lastCall.op = "stop"
    /\ Calls(trace, "clearTimeout") # {}
    /\ Calls(trace, "ws.close") = {}
    /\ ~started /\ ReconnectTimers(timers) = {}

\* C5: when a listener of webSocketClose calls stop() on an event that
\* announces a reconnect, the reconnect timer armed just before the event is
\* cancelled, started is false, and no transport is created.
C5_StopInCloseListener ==
    [][\A k \in Calls(trace', "webSocketClose") :
          (trace'[k].reconnect /\ \E l \in Calls(trace', "listener:stop") : l > k)
              => /\ ~started' /\ reconnectTimer' = null
                 /\ ReconnectTimers(timers') = {}
                 /\ \E i \in Calls(trace', "setTimeout"), j \in Calls(trace', "clearTimeout") :
                        /\ trace'[i].reason = "reconnect"
                        /\ i < k /\ k < j
                        /\ trace'[j].id = trace'[i].id
                 /\ Calls(trace', "createConnectionCallback") = {}
                 /\ wsCount' = wsCount]_vars

\* the listener stopped the client on the close of the second session
C5_Witness ==
    /\ \E k \in Calls(trace, "webSocketClose"), l \in Calls(trace, "listener:stop") :
           trace[k].reconnect /\ trace[k].ws = 2 /\ l > k
    /\ ~started /\ timers = {}

\* C6: start() on a started client throws and does nothing else: no call of
\* the factory, no timer, no event, the session and the timers as they were.
C6_StartWhileStarted ==
    [][(lastCall'.op = "start" /\ started) =>
          /\ lastCall'.exc = "start(): Already started"
          /\ trace' = <<>>
          /\ UNCHANGED clientVars
          /\ UNCHANGED <<wsCount, wsReadyState, nextTimerId, connectingEvents, closeEvents>>]_vars

\* start() was refused while a session was active
C6_Witness ==
    /\ lastCall.op = "start"
    /\ lastCall.exc = "start(): Already started"
    /\ started /\ activeWebSocket # null /\ connectTimeoutTimer # null

\* C7: a stopped client has no session and no reconnect timer, and start() on
\* it succeeds: started becomes true, the factory is called exactly once, the
\* new transport is the active session, webSocketConnecting is emitted for it
\* and no reconnect timer is armed.
C7_StartWhenStopped ==
    [][/\ ~started' => activeWebSocket' = null
       /\ (lastCall'.op = "start" /\ ~started) =>
             /\ lastCall'.exc = NoExc
             /\ started'
             /\ wsCount' = wsCount + 1 /\ activeWebSocket' = wsCount'
             /\ Cardinality(Calls(trace', "createConnectionCallback")) = 1
             /\ \E i \in Calls(trace', "createConnectionCallback"),
                   j \in Calls(trace', "webSocketConnecting") :
                    i < j /\ trace'[i].ws = wsCount' /\ trace'[j].ws = wsCount'
             /\ \A i \in Calls(trace', "setTimeout") : trace'[i].reason = "connectTimeout"
             /\ ReconnectTimers(timers') = {} /\ reconnectTimer' = null]_vars

\* start() succeeded after the first session had been closed by stop()
C7_Witness ==
    /\ lastCall.op = "start" /\ lastCall.exc = NoExc
    /\ wsCount >= 2 /\ closeEvents[1] = 1
    /\ started /\ activeWebSocket = wsCount

\* C8: hasActiveConnection is true only while the client is started and the
\* open of the active session has been handled; it is true right after that
\* open and false after any task that closed the session or began another.
C8_HasActiveConnection ==
    [][/\ hasActiveConnectionOf(Cur)' =>
             started' /\ activeWebSocket' # null /\ openHandled' = activeWebSocket'
       /\ (lastCall'.op = "ws.onopen" /\ lastCall'.code = activeWebSocket) =>
             hasActiveConnectionOf(Cur)'
       /\ (activeWebSocket' # activeWebSocket \/ Calls(trace', "webSocketClose") # {}) =>
             ~hasActiveConnectionOf(Cur)'
       /\ (lastCall'.op = "start" /\ lastCall'.exc = NoExc) => ~hasActiveConnectionOf(Cur)']_vars

\* the second session is open
C8_Witness ==
    /\ hasActiveConnectionOf(Cur)
    /\ activeWebSocket = 2 /\ closeEvents[1] = 1

\* C9: stop() never throws and emits at most one webSocketClose; a stop()
\* right after a stop() emits nothing and leaves the state as it was; stop()
\* on a client that was never started emits nothing.
C9_StopIdempotent ==
    [][lastCall'.op = "stop" =>
          /\ lastCall'.exc = NoExc
          /\ Cardinality(Calls(trace', "webSocketClose")) <= 1
          /\ lastCall.op = "stop" =>
                /\ trace' = <<>>
                /\ UNCHANGED clientVars
                /\ UNCHANGED <<wsCount, wsReadyState, nextTimerId, connectingEvents, closeEvents>>
          /\ wsCount = 0 => trace' = <<>>]_vars

\* stop() was called twice in a row on a client whose session the first closed
C9_Witness ==
    /\ lastCall.op = "stop" /\ lastCall.again
    /\ trace = <<>>
    /\ wsCount = 1 /\ closeEvents[1] = 1 /\ wsReadyState[1] = CLOSING

\* C10: when a session closes while the client is started and reconnect is
\* enabled, reconnectDelayCallback is called once with the counter as it was,
\* the counter becomes min(counter + 1, reconnectCounterMax), one reconnect
\* timer is armed with the delay returned, which for x => (x + 1) * 1111 is
\* 1111, 2222, 3333 for the counters 0, 1, 2, the webSocketClose event has
\* reconnect true and that delay, and unless a listener stops the client,
\* started stays true and the timer stays pending.
C10_CloseSchedulesReconnect ==
    [][\A k \in Calls(trace', "webSocketClose") :
          (lastCall'.op \in ClosingTasks /\ started /\ reconnect) =>
              /\ Cardinality(Calls(trace', "reconnectDelayCallback")) = 1
              /\ Cardinality({i \in Calls(trace', "setTimeout") : trace'[i].reason = "reconnect"}) = 1
              /\ \E c \in Calls(trace', "reconnectDelayCallback"), i \in Calls(trace', "setTimeout") :
                    /\ c < i /\ i < k
                    /\ trace'[c].arg = reconnectCounter
                    /\ trace'[i].reason = "reconnect"
                    /\ trace'[i].arg = (reconnectCounter + 1) * 1111
                    /\ trace'[k].reconnect
                    /\ trace'[k].reconnectDelay = trace'[i].arg
                    /\ Calls(trace', "listener:stop") = {} =>
                          /\ started'
                          /\ reconnectTimer' = trace'[i].id
                          /\ ReconnectTimers(timers') =
                                 {[id |-> trace'[i].id, kind |-> "reconnect", ws |-> null,
                                   delay |-> trace'[i].arg]}
              /\ reconnectCounter' = IF reconnectCounter + 1 < reconnectCounterMax
                                     THEN reconnectCounter + 1 ELSE reconnectCounterMax]_vars

\* the third connect in a row failed: counter 3 and delay 3333
C10_Witness ==
    /\ wsCount = 3 /\ openHandled = 0
    /\ closeEvents = [w \in Sessions |-> IF w <= 3 THEN 1 ELSE 0]
    /\ reconnectCounter = 3
    /\ started /\ reconnectTimer # null
    /\ \E k \in Calls(trace, "webSocketClose") :
           trace[k].reconnect /\ trace[k].reconnectDelay = 3333

\* C11: when a session closes while reconnect is disabled, or in stop(), the
\* client is stopped: started is false, no reconnect timer is armed or pending,
\* reconnectDelayCallback is not called, the counter is as it was, and the
\* webSocketClose event has reconnect false and no reconnectDelay.
C11_CloseWithoutReconnect ==
    [][\A k \in Calls(trace', "webSocketClose") :
          (lastCall'.op = "stop" \/ ~started \/ ~reconnect) =>
              /\ ~trace'[k].reconnect
              /\ trace'[k].reconnectDelay = NoDelay
              /\ ~started'
              /\ \A i \in Calls(trace', "setTimeout") : trace'[i].reason # "reconnect"
              /\ Calls(trace', "reconnectDelayCallback") = {}
              /\ ReconnectTimers(timers') = {} /\ reconnectTimer' = null
              /\ reconnectCounter' = reconnectCounter]_vars

\* the peer closed the open session of a client that does not reconnect
C11_Witness ==
    /\ lastCall.op = "ws.onclose"
    /\ ~reconnect /\ ~started /\ activeWebSocket = null
    /\ \E k \in Calls(trace, "webSocketClose") :
           /\ trace[k].closedByRemote /\ ~trace[k].reconnect
           /\ trace[k].reconnectDelay = NoDelay
           /\ openHandled = trace[k].ws

\* C12: a frame is handed to send() of a transport only while that transport
\* is the active session, its open has been handled, its close has not, and it
\* is OPEN; it is the transport made last, never one of an earlier session.
C12_SendOnlyOnOpenSession ==
    [][\A i \in Calls(trace', "ws.send") :
          LET ws == trace'[i].ws
          IN /\ ws # null
             /\ ws = activeWebSocket /\ activeWebSocket' = ws
             /\ ws = wsCount
             /\ openHandled = ws
             /\ closeEvents'[ws] = 0
             /\ wsReadyState[ws] = OPEN]_vars

\* a call made before the second session opened was sent on the second session
C12_Witness ==
    /\ lastCall.op = "rpc.data"
    /\ \E i \in Calls(trace, "ws.send") :
           /\ trace[i].ws = 2 /\ trace[i].arg = lastCall.code
    /\ closeEvents[1] = 1 /\ activeWebSocket = 2

\* C13: a call made while no session is open is not lost: when the engine
\* emits its frame, the frame is handed to send() of the active transport.
C13_QueuedCallsNotLost ==
    [][(lastCall'.op = "rpc.data" /\ outQueue # <<>> /\ outQueue' = Tail(outQueue)
            /\ Head(outQueue).held)
          => \E i \in Calls(trace', "ws.send") :
                 /\ trace'[i].arg = Head(outQueue).frame
                 /\ trace'[i].ws = activeWebSocket]_vars

\* C14: the asserts of _handleRpcData never fail: no data event of the engine
\* ends in an error event that reports one of them, nor in their exception
\* when no listener of 'error' was added.
C14_DataAssertNeverFails ==
    /\ \A i \in Calls(trace, "error") :
           trace[i].reason \notin {"_handleRpcData(): Expected an active connection",
                                   "_handleRpcData(): Expected an open connection"}
    /\ lastCall.exc \notin {"_handleRpcData(): Expected an active connection",
                             "_handleRpcData(): Expected an open connection"}

\* C15: the engine is paused exactly while no session is open: it is not
\* paused if and only if there is an active session whose open was handled,
\* and then that session is not connecting.
C15_PausedUnlessOpen ==
    /\ paused = ~(activeWebSocket # null /\ openHandled = activeWebSocket)
    /\ ~paused => (activeWebSocket # null /\ wsReadyState[activeWebSocket] # CONNECTING)

\* the engine is paused again while the session after an open one connects
C15_Witness ==
    /\ paused
    /\ openHandled = 1 /\ closeEvents[1] = 1
    /\ activeWebSocket = 2 /\ wsReadyState[2] = CONNECTING

\* C16: when the connect-timeout timer of a session fires, the open of that
\* session has not been handled, close() of its transport is called with
\* timeoutCloseCode and a reason that names the timeout the timer was armed
\* with (the connectTimeout of the time the attempt began), then webSocketClose
\* is emitted with closedByRemote false and the same code and reason, and no
\* webSocketOpen is emitted; and a session whose close was handled before its
\* open never has its open handled.
C16_ConnectTimeoutCloses ==
    [][/\ lastCall'.op = "connectTimeoutTimer" =>
             /\ activeWebSocket # null /\ lastCall'.code = connectTimeoutTimer
             /\ openHandled # activeWebSocket
             /\ Calls(trace', "webSocketOpen") = {}
             /\ activeWebSocket' = null
             /\ \E i \in Calls(trace', "ws.close"), k \in Calls(trace', "webSocketClose") :
                    /\ i < k
                    /\ trace'[i].ws = activeWebSocket /\ trace'[k].ws = activeWebSocket
                    /\ trace'[i].code = DefaultTimeoutCloseCode
                    /\ \E tm \in timers :
                           /\ tm.id = connectTimeoutTimer
                           /\ trace'[i].reason = TimeoutReason(tm.delay)
                    /\ trace'[k].code = trace'[i].code /\ trace'[k].reason = trace'[i].reason
                    /\ ~trace'[k].closedByRemote
       /\ \A ws \in Sessions :
             (closeEvents[ws] >= 1 /\ openHandled # ws) => openHandled' # ws]_vars

\* the connect attempt of the second session, begun with connectTimeout set
\* to 29875, timed out after connectTimeout was set back
C16_Witness ==
    /\ lastCall.op = "connectTimeoutTimer"
    /\ wsCount = 2 /\ closeEvents[2] = 1 /\ openHandled # 2
    /\ wsReadyState[2] = CLOSING
    /\ connectTimeout = DefaultConnectTimeout
    /\ \E k \in Calls(trace, "webSocketClose") :
           /\ trace[k].ws = 2 /\ trace[k].code = DefaultTimeoutCloseCode /\ ~trace[k].closedByRemote
           /\ trace[k].reason = "Timeout: Opening WebSocket took longer than 29875ms"

\* C17: every failure of a started client leads to a webSocketClose or an
\* error event: a connect timeout, and an exception of createConnectionCallback
\* in the callback of the reconnect timer, are followed by one of the two.
C17_FailuresResolve ==
    (\/ lastCall.op = "connectTimeoutTimer"
     \/ lastCall.op = "reconnectTimer" /\ lastCall.exc # NoExc)
        ~> (Calls(trace, "webSocketClose") # {} \/ Calls(trace, "error") # {})

\* C18: a pingFail with consecutiveFails >= consecutivePingFailClose (as it
\* is set when the pingFail is reported) closes
\* the active session: close() is called with timeoutCloseCode, webSocketClose
\* is emitted with closedByRemote false, and a reconnect is scheduled exactly
\* if the client is started with reconnect enabled; a pingFail with fewer
\* consecutiveFails calls no close(), emits no webSocketClose and leaves the
\* session as it was.
C18_PingFailThreshold ==
    [][lastCall'.op = "pingFail" =>
          /\ Calls(trace', "pingFail") # {}
          /\ (lastCall'.code >= consecutivePingFailClose /\ activeWebSocket # null) =>
                /\ activeWebSocket' = null
                /\ \E i \in Calls(trace', "ws.close"), k \in Calls(trace', "webSocketClose") :
                       /\ i < k
                       /\ trace'[i].ws = activeWebSocket /\ trace'[k].ws = activeWebSocket
                       /\ trace'[i].code = DefaultTimeoutCloseCode
                       /\ trace'[i].reason = "Timeout: No responses received to ping calls"
                       /\ trace'[k].code = DefaultTimeoutCloseCode
                       /\ ~trace'[k].closedByRemote
                       /\ trace'[k].reconnect = (started /\ reconnect)
                       /\ trace'[k].reconnect =>
                              \E j \in Calls(trace', "setTimeout") :
                                  j < k /\ trace'[j].reason = "reconnect"
          /\ lastCall'.code < consecutivePingFailClose =>
                /\ Calls(trace', "ws.close") = {}
                /\ Calls(trace', "webSocketClose") = {}
                /\ UNCHANGED <<started, activeWebSocket, wsReadyState, paused, pinging, timers>>]_vars

\* after consecutivePingFailClose was set to 1, the first ping failure of an
\* open session closed it with a reconnect scheduled
C18_Witness ==
    /\ lastCall.op = "pingFail" /\ lastCall.code = 1
    /\ consecutivePingFailClose = 1 /\ consecutivePingFailClose < PingFailClose
    /\ started /\ reconnectTimer # null /\ activeWebSocket = null
    /\ \E k \in Calls(trace, "webSocketClose") :
           /\ trace[k].ws = openHandled /\ trace[k].reconnect
           /\ trace[k].code = DefaultTimeoutCloseCode

\* C19: the reconnect counter changes in two ways only: a task in which
\* reconnectDelayCallback is called (a close that schedules a reconnect) makes
\* it min(c + 1, reconnectCounterMax), a ping success makes it max(0, c - 1);
\* every other task, start() after stop() included, leaves it as it was.
C19_CounterChanges ==
    [][/\ lastCall'.op = "pingSuccess" =>
             reconnectCounter' = IF reconnectCounter >= 1 THEN reconnectCounter - 1 ELSE 0
       /\ Calls(trace', "reconnectDelayCallback") # {} =>
             reconnectCounter' = IF reconnectCounter + 1 <= reconnectCounterMax
                                 THEN reconnectCounter + 1 ELSE reconnectCounterMax
       /\ (lastCall'.op # "pingSuccess" /\ Calls(trace', "reconnectDelayCallback") = {}) =>
             reconnectCounter' = reconnectCounter]_vars

\* start() after stop() found the counter at 2 and left it there
C19_Witness ==
    /\ lastCall.op = "start" /\ lastCall.exc = NoExc
    /\ reconnectCounter = 2
    /\ wsCount = 3 /\ activeWebSocket = 3
    /\ closeEvents[1] = 1 /\ closeEvents[2] = 1

\* C20: the 'error' event of the active transport emits webSocketError with
\* the event it was given and nothing else, and leaves started, the session,
\* the timers, the engine and the reconnect counter as they were, so that the
\* session can still open; the 'error' event of another transport does nothing.
C20_TransportErrorOnlyObserved ==
    [][lastCall'.op = "ws.onerror" =>
          /\ lastCall'.exc = NoExc
          /\ UNCHANGED clientVars
          /\ UNCHANGED <<wsCount, wsReadyState, nextTimerId, pingInFlight, consecutivePingFails,
                         connectingEvents, closeEvents, openHandled>>
          /\ IF lastCall'.code = activeWebSocket
             THEN \E errorOrEvent \in ErrorEvents :
                      trace' = <<[E0("webSocketError") EXCEPT !.ws = activeWebSocket,
                                                              !.arg = errorOrEvent]>>
             ELSE trace' = <<>>]_vars

\* the transport of a connecting session reported an error: the session is
\* still active and connecting, with its connect timeout pending
C20_Witness ==
    /\ lastCall.op = "ws.onerror" /\ lastCall.code = activeWebSocket
    /\ Calls(trace, "webSocketError") # {}
    /\ started /\ wsReadyState[activeWebSocket] = CONNECTING
    /\ connectTimeoutTimer # null
    /\ \E tm \in timers : tm.id = connectTimeoutTimer /\ tm.ws = activeWebSocket

\* the events of transports, named by the task they start
TransportEvents == {"ws.onopen", "ws.onerror", "ws.onclose", "ws.onmessage"}

\* C21: an event of a transport that is not the active session (its close was
\* handled, or a later session exists) does nothing: the client calls nothing
\* and emits nothing, its fields, the engine and the timers stay as they were,
\* no open or close is handled and nothing is written to the engine.
C21_StaleEventsInert ==
    [][(lastCall'.op \in TransportEvents /\ lastCall'.code # activeWebSocket) =>
          /\ trace' = <<>>
          /\ lastCall'.exc = NoExc
          /\ UNCHANGED clientVars
          /\ UNCHANGED <<wsCount, nextTimerId, consecutivePingFails, pingInFlight, outQueue,
                         connectingEvents, closeEvents, openHandled>>]_vars

\* a frame arrived on the first transport, which the client had closed, while
\* the second session was open
C21_Witness ==
    /\ lastCall.op = "ws.onmessage" /\ lastCall.code = 1
    /\ trace = <<>>
    /\ closeEvents[1] = 1 /\ wsReadyState[1] = CLOSING
    /\ activeWebSocket = 2 /\ openHandled = 2 /\ ~paused

\* C22: at most one session is active at a time: the factory is called only
\* while there is no active session and at most once in a task, every earlier
\* transport has had its close handled by then, and the active session is
\* always the transport made last.
C22_OneActiveSession ==
    [][/\ Calls(trace', "createConnectionCallback") # {} =>
             /\ activeWebSocket = null
             /\ Cardinality(Calls(trace', "createConnectionCallback")) = 1
             /\ wsCount' = wsCount + 1 /\ activeWebSocket' = wsCount'
             /\ \A ws \in 1 .. wsCount : closeEvents[ws] = 1
       /\ wsCount' # wsCount => Calls(trace', "createConnectionCallback") # {}
       /\ activeWebSocket' \in {null, wsCount'}]_vars

\* the callback of a reconnect timer that stop() had cleared ran while the
\* session made by the next start() was active: it threw and made no transport
C22_Witness ==
    /\ lastCall.op = "reconnectTimer"
    /\ lastCall.exc = "_connect(): There already is an active connection"
    /\ trace = <<>>
    /\ activeWebSocket = wsCount /\ wsCount = 2

\* the tasks that close the active session with a close code of the settings
CodeOfSettings == {"connectTimeoutTimer", "rpc.error"}

\* C23: setting timeoutCloseCode or internalErrorCloseCode to an integer
\* succeeds and stores it exactly if it is 1000 or in 3000..4999; otherwise the
\* setter throws and the stored value stays; either way nothing else changes.
\* So both stored codes are always 1000 or in 3000..4999, and so is the code
\* of every close() made with them.
C23_CloseCodeSetters ==
    [][LET v == lastCall'.code
           ok == v = 1000 \/ (3000 <= v /\ v <= 4999)
       IN /\ lastCall'.op = "set timeoutCloseCode" =>
                /\ (lastCall'.exc = NoExc) = ok
                /\ timeoutCloseCode' = IF ok THEN v ELSE timeoutCloseCode
                /\ UNCHANGED <<internalErrorCloseCode, wsCount, wsReadyState, closeEvents>>
                /\ UNCHANGED clientVars /\ trace' = <<>>
          /\ lastCall'.op = "set internalErrorCloseCode" =>
                /\ (lastCall'.exc = NoExc) = ok
                /\ internalErrorCloseCode' = IF ok THEN v ELSE internalErrorCloseCode
                /\ UNCHANGED <<timeoutCloseCode, wsCount, wsReadyState, closeEvents>>
                /\ UNCHANGED clientVars /\ trace' = <<>>
          /\ \A c \in {timeoutCloseCode', internalErrorCloseCode'} :
                c = 1000 \/ (3000 <= c /\ c <= 4999)
          /\ lastCall'.op \in CodeOfSettings =>
                \A i \in Calls(trace', "ws.close") :
                    /\ trace'[i].code \in {timeoutCloseCode, internalErrorCloseCode}
                    /\ trace'[i].code = 1000 \/ (3000 <= trace'[i].code /\ trace'[i].code <= 4999)]_vars

\* 5000 was refused as timeoutCloseCode after 4999 had been stored, and 4999
\* is still the stored code
C23_Witness ==
    /\ lastCall.op = "set timeoutCloseCode" /\ lastCall.code = 5000
    /\ lastCall.exc # NoExc
    /\ timeoutCloseCode = 4999
    /\ internalErrorCloseCode = 3000

\* C24: closeConnection() with a code that is neither 1000 nor in 3000..4999
\* throws and does nothing: close() of the transport is not called, nothing is
\* emitted, and the session, started, the timers, the counter and the engine
\* are as they were.
C24_InvalidCodeRefused ==
    [][LET v == lastCall'.code
       IN (lastCall'.op = "closeConnection" /\ ~(v = 1000 \/ (3000 <= v /\ v <= 4999))) =>
             /\ lastCall'.exc = "closeConnection(): Invalid close code"
             /\ trace' = <<>>
             /\ UNCHANGED clientVars
             /\ UNCHANGED <<wsCount, wsReadyState, nextTimerId, connectingEvents, closeEvents,
                            openHandled, timeoutCloseCode, internalErrorCloseCode>>]_vars

\* closeConnection(2999) was refused while the session was open, and the
\* session is still open
C24_Witness ==
    /\ lastCall.op = "closeConnection" /\ lastCall.code = 2999
    /\ lastCall.exc # NoExc
    /\ started /\ activeWebSocket # null /\ openHandled = activeWebSocket
    /\ wsReadyState[activeWebSocket] = OPEN /\ ~paused
    /\ closeEvents[activeWebSocket] = 0

\* C25: closeConnection() with a valid code returns true exactly if a session
\* was active at the call, connecting or open.  Then close() of its transport
\* is called once, with the code and reason given, and webSocketClose is
\* emitted once, after it, with that code and reason and closedByRemote false.
\* With no session active it returns false, calls and emits nothing, and
\* leaves the pending reconnect timer, started and the counter as they were.
C25_CloseConnectionResult ==
    [][lastCall'.op = "closeConnection" =>
          /\ lastCall'.exc = NoExc
          /\ lastCall'.ret = (activeWebSocket # null)
          /\ activeWebSocket # null =>
                /\ activeWebSocket' = null
                /\ Cardinality(Calls(trace', "ws.close")) = 1
                /\ Cardinality(Calls(trace', "webSocketClose")) = 1
                /\ \E i \in Calls(trace', "ws.close"), k \in Calls(trace', "webSocketClose"),
                      a \in CloseArgs :
                       /\ i < k
                       /\ a[1] = lastCall'.code
                       /\ trace'[i].ws = activeWebSocket /\ trace'[k].ws = activeWebSocket
                       /\ trace'[i].code = a[1] /\ trace'[i].reason = a[2]
                       /\ trace'[k].code = a[1] /\ trace'[k].reason = a[2]
                       /\ ~trace'[k].closedByRemote
          /\ activeWebSocket = null =>
                /\ trace' = <<>>
                /\ UNCHANGED clientVars
                /\ UNCHANGED <<wsCount, wsReadyState, nextTimerId, connectingEvents, closeEvents,
                               openHandled>>]_vars

\* closeConnection() returned false while the client waited for the reconnect
\* after its second session, and the reconnect timer is still pending
C25_Witness ==
    /\ lastCall.op = "closeConnection" /\ ~lastCall.ret /\ lastCall.exc = NoExc
    /\ trace = <<>>
    /\ started /\ activeWebSocket = null /\ wsCount = 2
    /\ reconnectCounter = 2
    /\ \E tm \in ReconnectTimers(timers) : tm.id = reconnectTimer

\* C26: when the engine emits 'error', the error is emitted once as the error
\* event of the client, as the last thing of the task: a listener of 'error'
\* receives it once, and with no listener of 'error' emit throws it, after
\* everything else was done.  If a session is active,
\* close() of its transport is called with internalErrorCloseCode as it is set
\* and the reason 'Internal JSON-RPC error', webSocketClose is emitted with
\* that code and reason and closedByRemote false, a reconnect timer is armed
\* before it exactly if the client is started with reconnect enabled, and all
\* of this comes before the error event.
C26_EngineErrorCloses ==
    [][lastCall'.op = "rpc.error" =>
          /\ errorListener =>
                /\ lastCall'.exc = NoExc
                /\ trace' # <<>> /\ Calls(trace', "error") = {Len(trace')}
                /\ trace'[Len(trace')].reason = "jsonbird"
          /\ ~errorListener =>
                lastCall'.exc = "jsonbird" /\ Calls(trace', "error") = {}
          /\ activeWebSocket' = null
          /\ activeWebSocket = null =>
                Calls(trace', "ws.close") = {} /\ Calls(trace', "webSocketClose") = {}
          /\ activeWebSocket # null =>
                /\ Cardinality(Calls(trace', "webSocketClose")) = 1
                /\ hasHandledWebSocketClose' /\ closeEvents'[activeWebSocket] = 1
                /\ \E i \in Calls(trace', "ws.close"), k \in Calls(trace', "webSocketClose") :
                       /\ i < k /\ \A e \in Calls(trace', "error") : k < e
                       /\ trace'[i].ws = activeWebSocket /\ trace'[k].ws = activeWebSocket
                       /\ trace'[i].code = internalErrorCloseCode
                       /\ trace'[i].reason = "Internal JSON-RPC error"
                       /\ trace'[k].code = internalErrorCloseCode
                       /\ trace'[k].reason = "Internal JSON-RPC error"
                       /\ ~trace'[k].closedByRemote
                       /\ trace'[k].reconnect = (started /\ reconnect)
                       /\ trace'[k].reconnect =
                              (\E j \in Calls(trace', "setTimeout") :
                                   /\ j < k /\ trace'[j].reason = "reconnect"
                                   /\ trace'[j].arg = trace'[k].reconnectDelay)]_vars

\* the engine emitted 'error' while the session was open and
\* internalErrorCloseCode had been set to 4999: the session was closed with
\* 4999, a reconnect is scheduled and the error was forwarded to the listener
\* of 'error'
C26_Witness ==
    /\ lastCall.op = "rpc.error"
    /\ internalErrorCloseCode = 4999
    /\ started /\ activeWebSocket = null /\ reconnectTimer # null
    /\ \E k \in Calls(trace, "webSocketClose") :
           /\ trace[k].ws = openHandled /\ trace[k].code = 4999 /\ trace[k].reconnect
           /\ trace[k].reconnectDelay = reconnectDelayCallback(reconnectCounter - 1)
    /\ Calls(trace, "error") # {}

\* C27: the exception of a listener of webSocketConnecting, webSocketOpen,
\* webSocketError or webSocketClose never leaves the client: no task, be it a
\* transport event, a timer callback or a call of start(), stop() or
\* closeConnection(), ends with that exception.
C27_ListenerErrorsCaught ==
    lastCall.exc # "listener threw"

\* C28: the exception of reconnectDelayCallback or of createConnectionCallback
\* never leaves the client: no task, be it start(), the callback of the
\* reconnect timer, closeConnection() or the close event of a transport, ends
\* with that exception.
C28_CallbackErrorsCaught ==
    lastCall.exc \notin {"createConnectionCallback threw", "reconnectDelayCallback threw"}

\* C29: the lifecycle events come in the order of the sessions.  A task emits
\* at most one of webSocketConnecting, webSocketOpen and webSocketClose.
\* webSocketConnecting is the first event of a new transport, and every
\* transport before it has had its webSocketConnecting and its one
\* webSocketClose.  webSocketOpen and webSocketClose are events of the
\* transport made last, after its webSocketConnecting; webSocketOpen comes at
\* most once and never after its webSocketClose, webSocketClose at most once.
C29_EventsInSessionOrder ==
    [][LET conn == Calls(trace', "webSocketConnecting")
           open == Calls(trace', "webSocketOpen")
           close == Calls(trace', "webSocketClose")
       IN /\ Cardinality(conn \cup open \cup close) <= 1
          /\ \A i \in conn :
                /\ trace'[i].ws = wsCount + 1 /\ wsCount' = wsCount + 1
                /\ connectingEvents'[wsCount'] = 1 /\ closeEvents'[wsCount'] = 0
                /\ openHandled' # wsCount'
                /\ \A w \in 1 .. wsCount : connectingEvents[w] = 1 /\ closeEvents[w] = 1
          /\ \A i \in open :
                /\ trace'[i].ws = wsCount /\ wsCount' = wsCount
                /\ connectingEvents[wsCount] = 1 /\ closeEvents'[wsCount] = 0
                /\ openHandled # wsCount /\ openHandled' = wsCount
          /\ \A i \in close :
                /\ trace'[i].ws = wsCount /\ wsCount' = wsCount
                /\ connectingEvents[wsCount] = 1
                /\ closeEvents[wsCount] = 0 /\ closeEvents'[wsCount] = 1
          /\ conn = {} => connectingEvents' = connectingEvents
          /\ open = {} => openHandled' = openHandled
          /\ close = {} => closeEvents' = closeEvents]_vars

\* webSocketConnecting of the third session: the first session was closed
\* before it opened, the second was open and then closed
C29_Witness ==
    /\ Calls(trace, "webSocketConnecting") # {}
    /\ wsCount = 3 /\ activeWebSocket = 3
    /\ connectingEvents = [w \in Sessions |-> IF w <= 3 THEN 1 ELSE 0]
    /\ closeEvents = [w \in Sessions |-> IF w <= 2 THEN 1 ELSE 0]
    /\ openHandled = 2

\* C30: reconnectDelayCallback is called with the counter as it is before the
\* increment, and that counter is in 0 .. reconnectCounterMax, with
\* reconnectCounterMax as it is at the call, also after it was set anew.
C30_DelayCallbackCounter ==
    [][\A c \in Calls(trace', "reconnectDelayCallback") :
          /\ trace'[c].arg = reconnectCounter
          /\ 0 <= trace'[c].arg /\ trace'[c].arg <= reconnectCounterMax]_vars

\* the connect-timeout timers among tms
ConnectTimeoutTimers(tms) == {tm \in tms : tm.kind = "connectTimeout"}

\* C31: a connect-timeout timer is armed only while a session is connecting.
\* In every state connectTimeoutTimer is non-null only if there is an active
\* session whose open has not been handled; the handle is that of a pending
\* timer made for that session and no other connect-timeout timer is pending,
\* so the timer is gone once the open or the close of the session was handled;
\* after stop() no connect-timeout timer is pending.
C31_ConnectTimerOnlyConnecting ==
    /\ connectTimeoutTimer # null
          => /\ activeWebSocket # null /\ openHandled # activeWebSocket
             /\ \E tm \in ConnectTimeoutTimers(timers) :
                    tm.id = connectTimeoutTimer /\ tm.ws = activeWebSocket
    /\ \A tm \in ConnectTimeoutTimers(timers) : tm.id = connectTimeoutTimer
    /\ (activeWebSocket = null \/ openHandled = activeWebSocket)
          => connectTimeoutTimer = null /\ ConnectTimeoutTimers(timers) = {}
    /\ lastCall.op = "stop" => ConnectTimeoutTimers(timers) = {}

\* stop() on a session that was still connecting: it cleared the
\* connect-timeout timer of the session
C31_Witness ==
    /\ lastCall.op = "stop" /\ lastCall.exc = NoExc
    /\ openHandled # wsCount /\ wsReadyState[wsCount] = CLOSING
    /\ \E i \in Calls(trace, "ws.close") : trace[i].ws = wsCount
    /\ Calls(trace, "clearTimeout") # {}
    /\ connectTimeoutTimer = null /\ timers = {}

\* C32: a reconnect timer is armed only while the client waits to reconnect.
\* In every state reconnectTimer is non-null only if started is true and there
\* is no active session; the handle is that of the one reconnect timer that
\* is pending, and no reconnect timer is pending without it; after stop() no
\* reconnect timer is pending.
C32_ReconnectTimerOnlyWaiting ==
    /\ reconnectTimer # null
          => /\ started /\ activeWebSocket = null
             /\ \E tm \in ReconnectTimers(timers) : tm.id = reconnectTimer
    /\ \A tm \in ReconnectTimers(timers) : tm.id = reconnectTimer
    /\ Cardinality(ReconnectTimers(timers)) <= 1
    /\ lastCall.op = "stop" => reconnectTimer = null /\ ReconnectTimers(timers) = {}

\* stop() while the client waited to reconnect: it cleared the reconnect timer
C32_Witness ==
    /\ lastCall.op = "stop" /\ lastCall.exc = NoExc /\ lastCall.ret = FALSE
    /\ wsCount >= 1 /\ closeEvents[wsCount] = 1
    /\ Calls(trace, "clearTimeout") # {}
    /\ reconnectTimer = null /\ timers = {} /\ ~started

\* C33: the callback of a cleared timer that runs all the same does nothing
\* for a session that was superseded.  The connect-timeout callback of a
\* transport that is not the active one changes nothing and calls nothing; the
\* reconnect callback that runs while the client is stopped, or while it has
\* a session, calls no factory, makes no transport and ends without an
\* exception.
C33_LateCallbacksInert ==
    [][\A tm \in cancelled \ cancelled' :
          /\ (tm.kind = "connectTimeout" /\ tm.ws # activeWebSocket)
                => /\ UNCHANGED clientVars
                   /\ trace' = <<>> /\ lastCall'.exc = NoExc
          /\ (tm.kind = "reconnect" /\ (~started \/ activeWebSocket # null))
                => /\ wsCount' = wsCount
                   /\ Calls(trace', "createConnectionCallback") = {}
                   /\ lastCall'.exc = NoExc]_vars

\* C34: the connect timeout acts only on a session that is still connecting.
\* No task closes a transport whose open was handled with the reason of the
\* connect timeout: neither its close() nor its webSocketClose event carries
\* 'Timeout: Opening WebSocket took longer than ...'.
C34_TimeoutOnlyWhileConnecting ==
    \A i \in Calls(trace, "ws.close") \cup Calls(trace, "webSocketClose") :
        trace[i].reason = "Timeout: Opening WebSocket took longer than 10000ms"
            => trace[i].ws # openHandled

\* C35: the count of consecutive ping failures is that of one open session.
\* The task that handles the open of a session leaves the count at zero,
\* whatever it was; a pingFail event carries the count raised by one, which
\* is the new count; a ping that succeeds sets it to zero and no other task
\* changes it.  So the first pingFail after an open carries 1, and the n-th in
\* a row carries n.
C35_PingFailsPerSession ==
    [][/\ openHandled' # openHandled => consecutivePingFails' = 0
       /\ \A i \in Calls(trace', "pingFail") :
              /\ trace'[i].arg = consecutivePingFails + 1
              /\ consecutivePingFails' = consecutivePingFails + 1
       /\ lastCall'.op = "pingSuccess" => consecutivePingFails' = 0
       /\ (/\ openHandled' = openHandled
           /\ Calls(trace', "pingFail") = {}
           /\ lastCall'.op # "pingSuccess")
              => consecutivePingFails' = consecutivePingFails]_vars

\* the first pingFail of a session that is not the first one: it carries 1
C35_Witness ==
    /\ lastCall.op = "pingFail" /\ lastCall.code = 1
    /\ \E i \in Calls(trace, "pingFail") : trace[i].arg = 1
    /\ wsCount >= 2 /\ activeWebSocket = wsCount /\ openHandled = wsCount
    /\ pingInFlight = 0 /\ consecutivePingFails = 1

\* C36: whenever a session is active its close has not been marked as
\* handled, also when a listener of webSocketClose has started the client
\* anew: activeWebSocket non-null implies hasHandledWebSocketClose false.
C36_ActiveSessionCloseUnhandled ==
    activeWebSocket # null => ~hasHandledWebSocketClose

\* C37: a started client always has something pending.  In every state in
\* which started is true there is an active session or the reconnect timer
\* is armed and pending, also after createConnectionCallback or
\* reconnectDelayCallback has thrown.
C37_StartedHasPending ==
    started => \/ activeWebSocket # null
               \/ /\ reconnectTimer # null
                  /\ \E tm \in ReconnectTimers(timers) : tm.id = reconnectTimer

\* C38: whenever started is false there is no active session and the engine
\* is paused, whatever cleared started: stop() with any arguments, a code
\* that makes stop() throw included, or a close with reconnect disabled.
C38_StoppedHasNoSession ==
    ~started => activeWebSocket = null /\ paused

\* C39: the events of the engine belong to the session that caused them.  A
\* pingFail for a ping that was sent on a transport whose close was handled
\* does not close the session that is active when it is reported: the task
\* calls close() on no transport and leaves activeWebSocket as it was.
C39_StalePingFailInert ==
    [][(/\ lastCall'.op = "pingFail"
        /\ pingInFlight \in Sessions
        /\ closeEvents[pingInFlight] = 1
        /\ activeWebSocket # null)
          => /\ activeWebSocket' = activeWebSocket
             /\ Calls(trace', "ws.close") = {}]_vars

\* C40: no transport is leaked.  A task that ends the session of a transport
\* has called close() on that transport, or is the 'close' event of that
\* transport; the factory is called only when there is no session and every
\* transport made before has been released in one of these two ways; so a
\* transport that is not the active one is closing or closed.
C40_NoTransportLeaked ==
    [][/\ (activeWebSocket # null /\ activeWebSocket' # activeWebSocket)
             => \/ \E i \in Calls(trace', "ws.close") : trace'[i].ws = activeWebSocket
                \/ lastCall'.op = "ws.onclose" /\ lastCall'.code = activeWebSocket
       /\ Calls(trace', "createConnectionCallback") # {}
             => /\ activeWebSocket = null
                /\ \A w \in 1 .. wsCount : wsReadyState[w] \in {CLOSING, CLOSED}
       /\ \A w \in 1 .. wsCount' :
             w # activeWebSocket' => wsReadyState'[w] \in {CLOSING, CLOSED}]_vars

\* the third transport is made: the first was released and has not delivered
\* its close event yet, the second was open and has delivered it
C40_Witness ==
    /\ Calls(trace, "createConnectionCallback") # {}
    /\ wsCount = 3 /\ activeWebSocket = 3
    /\ wsReadyState[1] = CLOSING /\ wsReadyState[2] = CLOSED
    /\ openHandled = 2 /\ closeEvents[1] = 1 /\ closeEvents[2] = 1

===========================================================================
